---- MODULE Spec2Model ----
(***************************************************************************)
(* Model of the progress-tracking engine of the Child Study backend.       *)
(* One Progress document (Backend/models/Progress.js) is modelled field by *)
(* field; every schema method is one action.  Date.now() is the variable   *)
(* `now`, counted in ticks of TickMs milliseconds.                         *)
(***************************************************************************)
EXTENDS Integers, Sequences, FiniteSets, TLC

(* ------------------------------ bounds --------------------------------- *)
MaxCalls == 4          \* method calls made on the document in one behaviour
MaxNow   == 2          \* last clock tick
TickMs   == 500        \* milliseconds per clock tick

NoDate     == 0        \* an unset Date path (undefined)
NoDuration == -1       \* an unset watchSessions[i].duration (undefined)
NoRating   == 0        \* an unset rating (undefined)

WatchTimes     == {-1, 0, 79, 80, 130}   \* watchTime arguments
TotalDurations == {-1, 0, 100, 200}      \* totalDuration arguments
Positions      == {0, 1}                 \* playback positions passed by callers
\* (name, type) arguments of addAchievement
AchievementArgs == {<<"Lesson Completed", "completion">>,
                    <<"Fast Learner", "speed">>}
BasePointsArgs == {5, 10, 15}
DifficultyArgs == {"easy", "medium", "hard", "unknown"}
\* field values of the documents calculatePoints is applied to
AttemptsValues       == {1, 2}
RatingValues         == {NoRating, 3, 4, 5}
EngagementValues     == {3, 4, 5}
StreakValues         == {0, 6, 7}
TimeSpentValues      == {50, 120}
LessonDurationValues == {0, 60}

MaxHours == 72         \* hours the clock advances while requests are served
ElapseHours == {12, 24}                  \* time between two requests
\* (name, points) of the body of POST /achievement; points 0 also stands for
\* a body without points
UserAchievementNames == {"First Steps", "Week Streak", "Point Collector"}
PointsArgs == {0, 50, 450, 1000}
StreakDaysValues == {0, 3}               \* streakDays of the stored users

MaxRequests == 7       \* login requests that reach the rate limit
MaxMinutes  == 20      \* minutes the clock advances between them
WaitMinutes == {5, 10}
ClientIPs   == {"a", "b"}

MaxDocs == 3           \* Progress documents in the collection
Today   == 10          \* the UTC day, counted from the epoch, of a statistics request
NowHours == {0, 12, 23}                  \* its UTC hour of the day
UserIds  == {1, 2}                       \* 1 is the stored user, 2 has no User document
\* the populated lesson of a Progress document; unresolved: lesson is null
Lessons == {[resolved |-> FALSE, category |-> "", difficulty |-> ""],
            [resolved |-> TRUE, category |-> "basics", difficulty |-> "easy"],
            [resolved |-> TRUE, category |-> "coding", difficulty |-> "hard"]}
\* isCompleted, pointsEarned and the age of completedAt in hours
DocProgress == {[isCompleted |-> FALSE, pointsEarned |-> 5, hoursAgo |-> 0],
                [isCompleted |-> TRUE, pointsEarned |-> 10, hoursAgo |-> 48],
                [isCompleted |-> TRUE, pointsEarned |-> 20, hoursAgo |-> 192]}
\* the server's time zone: UTC offset in hours; with dst the offset grows by
\* one hour at the UTC hour dstStart (02:00 local time two days ago)
TimeZones == {[offset |-> 0, dst |-> FALSE, dstStart |-> 0],
              [offset |-> 1, dst |-> TRUE, dstStart |-> (Today - 2) * 24 + 1]}

VARIABLES
  status, watchTime, completionPercentage, isCompleted, completedAt,
  startedAt, lastWatch, watchSessions, rating, pointsEarned, attempts,
  bookmarked, bookmarkedAt, timeSpent, streakCount, achievements,
  childEngagement,
  lessonDuration,      \* this.lesson.duration of the populated lesson, 0 if none
  modifiedPaths,       \* paths mongoose reports through isModified()
  now,                 \* Date.now(), in ticks
  ncalls,              \* number of method calls made so far
  ret,                 \* the last call and what it returned
  user,                \* the stored User document (models/User.js)
  res,                 \* the response to the last request
  progressDocs,        \* the Progress collection, lessons populated
  serverTz,            \* the time zone of the server process
  stats,               \* the data of the last statistics response
  inflight,            \* the requests being served: request id -> its state
  loginAttempts,       \* global.loginAttempts: client IP -> timestamps
  accepted             \* history: the login requests the rate limit let through

docVars == <<status, watchTime, completionPercentage, isCompleted, completedAt,
             startedAt, lastWatch, watchSessions, rating, pointsEarned,
             attempts, bookmarked, bookmarkedAt, timeSpent, streakCount,
             achievements, childEngagement, lessonDuration>>

\* the state of the request handlers
statsVars == <<progressDocs, serverTz, stats>>

limiterVars == <<loginAttempts, accepted>>

serviceVars == <<user, res, statsVars, inflight, limiterVars>>

vars == <<docVars, modifiedPaths, now, ncalls, ret, serviceVars>>

(* ------------------------------ helpers -------------------------------- *)
Max(a, b) == IF a >= b THEN a ELSE b
Min(a, b) == IF a <= b THEN a ELSE b

\* Math.round(num / den) for den > 0: halves round toward +infinity
MathRound(num, den) == (2 * num + den) \div (2 * den)

\* Math.floor(num / den) for den > 0
MathFloor(num, den) == num \div den

\* what a call returns: the method called, its result, the error it threw
\* (args: the arguments of a calculatePoints call)
Returned(op) == [op |-> op, args |-> <<>>, completed |-> FALSE,
                 firstTime |-> FALSE, added |-> FALSE, points |-> 0,
                 error |-> "none"]

\* mongoose marks a path modified when a set() changes its value
MarkModified(path, old, new) ==
  IF old # new THEN modifiedPaths \cup {path} ELSE modifiedPaths

(* ----------------------- validators.validateProgress ------------------- *)
\* the message of the Error validateProgress throws, "none" when it returns
validateProgress(wt, totalDuration) ==
  IF wt < 0 \/ totalDuration <= 0 THEN "Invalid progress data"
  ELSE IF wt * 10 > totalDuration * 12
       THEN "Watch time cannot exceed video duration significantly"
       ELSE "none"

(* ------------------------- Progress.updateProgress --------------------- *)
NextWatchTime(cur, observed) == Max(cur, observed)

CompletionPercentageNoCap(cur, wt, totalDuration) ==
  IF totalDuration > 0 THEN MathRound(wt * 100, totalDuration) ELSE cur

CompletionPercentage(cur, wt, totalDuration) ==
  IF totalDuration > 0 THEN Min(100, MathRound(wt * 100, totalDuration))
  ELSE cur

CompletesAgain(pct, done) == pct >= 80

CompletesAbove(pct, done) == pct > 80 /\ ~done

Completes(pct, done) == pct >= 80 /\ ~done

\* the status after the else-if branch of "Update status and completion"
StatusInProgressAgain(cur, pct) == IF pct > 0 THEN "in_progress" ELSE cur

StatusInProgress(cur, pct) ==
  IF pct > 0 /\ cur = "not_started" THEN "in_progress" ELSE cur

updateProgress(wt, totalDuration, currentPosition) ==
  LET previousCompleted == isCompleted
      newWatchTime == NextWatchTime(watchTime, wt)
      newPct == CompletionPercentage(completionPercentage, newWatchTime,
                                     totalDuration)
  IN
  /\ ncalls < MaxCalls
  /\ ncalls' = ncalls + 1
  /\ UNCHANGED serviceVars
  /\ watchTime' = newWatchTime
  /\ lastWatch' = [position |-> currentPosition, timestamp |-> now]
  /\ completionPercentage' = newPct
  /\ IF Completes(newPct, isCompleted)
     THEN /\ isCompleted' = TRUE
          /\ completedAt' = now
          /\ status' = "completed"
          /\ achievements' = Append(achievements,
                 [name |-> "Lesson Completed", type |-> "completion",
                  unlockedAt |-> now])
          /\ ret' = [Returned("updateProgress") EXCEPT !.completed = TRUE,
                                  !.firstTime = ~previousCompleted]
          /\ modifiedPaths' =
               (modifiedPaths
                  \cup (IF newWatchTime # watchTime THEN {"watchTime"} ELSE {})
                  \cup (IF ~isCompleted THEN {"isCompleted"} ELSE {}))
     ELSE /\ status' = StatusInProgress(status, newPct)
          /\ ret' = Returned("updateProgress")
          /\ modifiedPaths' = MarkModified("watchTime", watchTime, newWatchTime)
          /\ UNCHANGED <<isCompleted, completedAt, achievements>>
  /\ UNCHANGED <<startedAt, watchSessions, rating, pointsEarned, attempts,
                 bookmarked, bookmarkedAt, timeSpent, streakCount,
                 childEngagement, lessonDuration, now>>

(* ------------------------ Progress.startWatchSession ------------------- *)
\* the status after the "Update status if not started" branch
StatusRestarted(cur) == "in_progress"

StatusStarted(cur) == IF cur = "not_started" THEN "in_progress" ELSE cur

startWatchSession(startPosition) ==
  LET session == [startTime |-> now, endTime |-> NoDate,
                  duration |-> NoDuration, startPosition |-> startPosition,
                  endPosition |-> startPosition, completed |-> FALSE]
  IN
  /\ ncalls < MaxCalls
  /\ ncalls' = ncalls + 1
  /\ UNCHANGED serviceVars
  /\ watchSessions' = Append(watchSessions, session)
  /\ status' = StatusStarted(status)
  /\ startedAt' = IF status = "not_started" THEN now ELSE startedAt
  /\ ret' = Returned("startWatchSession")
  /\ UNCHANGED <<watchTime, completionPercentage, isCompleted, completedAt,
                 lastWatch, rating, pointsEarned, attempts, bookmarked,
                 bookmarkedAt, timeSpent, streakCount, achievements,
                 childEngagement, lessonDuration, modifiedPaths, now>>

(* ------------------------- Progress.endWatchSession -------------------- *)
\* Math.round((endTime - startTime) / 1000), both times in ticks
SessionDuration(startTime, endTime) ==
  MathRound((endTime - startTime) * TickMs, 1000)

TimeSpentForgotten(cur, duration) == cur

TimeSpentAfter(cur, duration) == cur + duration

endWatchSession(endPosition, completed) ==
  LET n == Len(watchSessions) IN
  /\ ncalls < MaxCalls
  /\ ncalls' = ncalls + 1
  /\ UNCHANGED serviceVars
  /\ IF n > 0 /\ watchSessions[n].endTime = NoDate
     THEN LET d == SessionDuration(watchSessions[n].startTime, now) IN
          /\ watchSessions' = [watchSessions EXCEPT ![n] =
                 [@ EXCEPT !.endTime = now, !.endPosition = endPosition,
                           !.duration = d, !.completed = completed]]
          /\ timeSpent' = TimeSpentAfter(timeSpent, d)
          /\ lastWatch' = [position |-> endPosition, timestamp |-> now]
     ELSE UNCHANGED <<watchSessions, timeSpent, lastWatch>>
  /\ ret' = Returned("endWatchSession")
  /\ UNCHANGED <<status, watchTime, completionPercentage, isCompleted,
                 completedAt, startedAt, rating, pointsEarned, attempts,
                 bookmarked, bookmarkedAt, streakCount, achievements,
                 childEngagement, lessonDuration, modifiedPaths, now>>

(* --------------------------- Progress.addAchievement ------------------- *)
HasAchievementLastOnly(list, name) ==
  Len(list) > 0 /\ list[Len(list)].name = name

HasAchievement(list, name) == \E i \in 1..Len(list) : list[i].name = name

addAchievement(name, type) ==
  /\ ncalls < MaxCalls
  /\ ncalls' = ncalls + 1
  /\ UNCHANGED serviceVars
  /\ IF ~HasAchievement(achievements, name)
     THEN /\ achievements' = Append(achievements,
                 [name |-> name, type |-> type, unlockedAt |-> now])
          /\ ret' = [Returned("addAchievement") EXCEPT !.added = TRUE]
     ELSE /\ UNCHANGED achievements
          /\ ret' = Returned("addAchievement")
  /\ UNCHANGED <<status, watchTime, completionPercentage, isCompleted,
                 completedAt, startedAt, lastWatch, watchSessions, rating,
                 pointsEarned, attempts, bookmarked, bookmarkedAt, timeSpent,
                 streakCount, childEngagement, lessonDuration, modifiedPaths,
                 now>>

(* --------------------- ProgressSchema.pre('save') + save --------------- *)
SaveCompletedAtRestamp(modified, done, cur) ==
  IF "isCompleted" \in modified /\ done THEN now ELSE cur

SaveCompletedAt(modified, done, cur) ==
  IF "isCompleted" \in modified /\ done /\ cur = NoDate THEN now ELSE cur

save ==
  /\ ncalls < MaxCalls
  /\ ncalls' = ncalls + 1
  /\ UNCHANGED serviceVars
  /\ lastWatch' = IF "watchTime" \in modifiedPaths
                  THEN [lastWatch EXCEPT !.timestamp = now] ELSE lastWatch
  /\ completedAt' = SaveCompletedAt(modifiedPaths, isCompleted, completedAt)
  /\ bookmarkedAt' = IF "bookmarked" \in modifiedPaths /\ bookmarked
                        /\ bookmarkedAt = NoDate
                     THEN now ELSE bookmarkedAt
  /\ modifiedPaths' = {}
  /\ ret' = Returned("save")
  /\ UNCHANGED <<status, watchTime, completionPercentage, isCompleted,
                 startedAt, watchSessions, rating, pointsEarned, attempts,
                 bookmarked, timeSpent, streakCount, achievements,
                 childEngagement, lessonDuration, now>>

(* -------------------------- Progress.calculatePoints ------------------- *)
\* difficultyMultiplier[lessonDifficulty] || 1, as the fraction num/den
DifficultyMultiplier(lessonDifficulty) ==
  CASE lessonDifficulty = "easy"   -> [num |-> 1, den |-> 1]
    [] lessonDifficulty = "medium" -> [num |-> 6, den |-> 5]
    [] lessonDifficulty = "hard"   -> [num |-> 3, den |-> 2]
    [] OTHER                       -> [num |-> 1, den |-> 1]

\* the bonuses added to basePoints * multiplier; all of them are integers
PointsBonuses(basePoints) ==
    (IF attempts = 1 THEN MathFloor(basePoints * 25, 100) ELSE 0)
  + (IF lessonDuration # 0 /\ timeSpent < lessonDuration * 2
     THEN MathFloor(basePoints * 15, 100) ELSE 0)
  + (IF rating >= 5 THEN 10 ELSE IF rating >= 4 THEN 5 ELSE 0)
  + (IF childEngagement.enjoymentLevel >= 4
        /\ childEngagement.attentionLevel >= 4 THEN 5 ELSE 0)
  + (IF streakCount >= 7 THEN MathFloor(basePoints * 10, 100) ELSE 0)

PointsWhenCompletedFloored(basePoints, lessonDifficulty) ==
  LET m == DifficultyMultiplier(lessonDifficulty) IN
  MathFloor(basePoints * m.num + PointsBonuses(basePoints) * m.den, m.den)

PointsWhenCompleted(basePoints, lessonDifficulty) ==
  LET m == DifficultyMultiplier(lessonDifficulty) IN
  MathRound(basePoints * m.num + PointsBonuses(basePoints) * m.den, m.den)

CalculatePointsUnguarded(basePoints, lessonDifficulty) ==
  PointsWhenCompleted(basePoints, lessonDifficulty)

CalculatePoints(basePoints, lessonDifficulty) ==
  IF ~isCompleted THEN 0
  ELSE PointsWhenCompleted(basePoints, lessonDifficulty)

calculatePointsStoring(basePoints, lessonDifficulty) ==
  /\ ncalls < MaxCalls
  /\ ncalls' = ncalls + 1
  /\ UNCHANGED serviceVars
  /\ ret' = [Returned("calculatePoints") EXCEPT
               !.args = <<basePoints, lessonDifficulty>>,
               !.points = CalculatePoints(basePoints, lessonDifficulty)]
  /\ pointsEarned' = CalculatePoints(basePoints, lessonDifficulty)
  /\ UNCHANGED <<status, watchTime, completionPercentage, isCompleted,
                 completedAt, startedAt, lastWatch, watchSessions, rating,
                 attempts, bookmarked, bookmarkedAt, timeSpent, streakCount,
                 achievements, childEngagement, lessonDuration, modifiedPaths,
                 now>>

calculatePoints(basePoints, lessonDifficulty) ==
  /\ ncalls < MaxCalls
  /\ ncalls' = ncalls + 1
  /\ UNCHANGED serviceVars
  /\ ret' = [Returned("calculatePoints") EXCEPT
               !.args = <<basePoints, lessonDifficulty>>,
               !.points = CalculatePoints(basePoints, lessonDifficulty)]
  /\ UNCHANGED <<docVars, modifiedPaths, now>>

(* ------------------------------ models/User --------------------------- *)
\* a duration in clock ticks, rounded up to a whole tick
HoursToTicks(h) == (h * 3600000 + TickMs - 1) \div TickMs

\* the document User.create() stores: the schema defaults
NewUser(streakDays) ==
  [level |-> 1, totalPoints |-> 0, streakDays |-> streakDays,
   lastActiveDate |-> now, achievements |-> <<>>, loginAttempts |-> 0,
   lockUntil |-> NoDate]

\* the virtual isLocked
IsLocked(u) == u.lockUntil # NoDate /\ u.lockUntil > now

\* UserSchema.methods.updateLevel: the level after the call
UpdateLevelUncapped(u) ==
  LET newLevel == MathFloor(u.totalPoints, 100) + 1 IN
  IF newLevel > u.level THEN newLevel ELSE u.level

UpdateLevel(u) ==
  LET newLevel == MathFloor(u.totalPoints, 100) + 1 IN
  IF newLevel > u.level /\ newLevel <= 10 THEN newLevel ELSE u.level

\* UserSchema.methods.addPoints: the document after the call; the method
\* returns whether the level was raised
AddPoints(u, points) ==
  LET added == [u EXCEPT !.totalPoints = @ + points] IN
  [added EXCEPT !.level = UpdateLevel(added)]

\* UserSchema.methods.updateStreak: diffDays, then streakDays after the call
DiffDaysRounded(lastActive, today) ==
  LET diffTime == (IF today >= lastActive THEN today - lastActive
                   ELSE lastActive - today) * TickMs
  IN MathRound(diffTime, 1000 * 60 * 60 * 24)

DiffDays(lastActive, today) ==
  LET diffTime == (IF today >= lastActive THEN today - lastActive
                   ELSE lastActive - today) * TickMs
  IN MathFloor(diffTime, 1000 * 60 * 60 * 24)

UpdateStreak(u) ==
  LET diffDays == DiffDays(u.lastActiveDate, now) IN
  IF diffDays = 1 THEN [u EXCEPT !.streakDays = @ + 1]
  ELSE IF diffDays > 1 THEN [u EXCEPT !.streakDays = 1]
  ELSE u

\* UserSchema.pre('save'): a modified document that is not new gets
\* lastActiveDate = Date.now(); loaded is the document as it was loaded
PreSaveUser(loaded, u) ==
  IF u # loaded THEN [u EXCEPT !.lastActiveDate = now] ELSE u

\* UserSchema.methods.incLoginAttempts: the stored document after updateOne
IncLoginAttempts(u) ==
  IF u.lockUntil # NoDate /\ u.lockUntil < now
  THEN [u EXCEPT !.lockUntil = NoDate, !.loginAttempts = 1]
  ELSE IF u.loginAttempts + 1 >= 5 /\ ~IsLocked(u)
       THEN [u EXCEPT !.loginAttempts = @ + 1,
                      !.lockUntil = now + HoursToTicks(2)]
       ELSE [u EXCEPT !.loginAttempts = @ + 1]

\* UserSchema.methods.resetLoginAttempts: the stored document after updateOne
ResetLoginAttempts(u) ==
  [u EXCEPT !.loginAttempts = 0, !.lockUntil = NoDate]

(* ---------------------- Controllers/authController --------------------- *)
Response(handler, code) ==
  [handler |-> handler, status |-> code, error |-> "none",
   leveledUp |-> FALSE, newLevel |-> 0, totalPoints |-> 0]

ExistingAchievementNever(list, name) == FALSE

ExistingAchievement(list, name) ==
  \E i \in 1..Len(list) : list[i].name = name

\* POST /api/v1/auth/achievement
authAddAchievement(name, points) ==
  /\ ncalls < MaxCalls
  /\ ncalls' = ncalls + 1
  /\ IF ExistingAchievement(user.achievements, name)
     THEN /\ res' = [Response("addAchievement", 400) EXCEPT
                       !.error = "Achievement already earned"]
          /\ UNCHANGED user
     ELSE LET pushed == [user EXCEPT !.achievements =
                           Append(@, [name |-> name, points |-> points,
                                      earnedAt |-> now])]
              pointed == AddPoints(pushed, points)
          IN /\ user' = PreSaveUser(user, pointed)
             /\ res' = [Response("addAchievement", 200) EXCEPT
                          !.leveledUp = (pointed.level # pushed.level),
                          !.newLevel = pointed.level,
                          !.totalPoints = pointed.totalPoints]
  /\ UNCHANGED <<docVars, modifiedPaths, ret, now, statsVars, inflight>>
  /\ UNCHANGED limiterVars

\* POST /api/v1/auth/login of the user's email; passwordOk is the outcome of
\* matchPassword
LoginHandler(passwordOk) ==
  IF IsLocked(user)
  THEN /\ res' = [Response("login", 423) EXCEPT
                    !.error = "Account is locked"]
       /\ UNCHANGED user
  ELSE IF ~passwordOk
  THEN /\ user' = IncLoginAttempts(user)
       /\ res' = [Response("login", 401) EXCEPT
                    !.error = "Invalid credentials"]
  ELSE LET reset == IF user.loginAttempts > 0
                    THEN ResetLoginAttempts(user) ELSE user
       IN /\ user' = PreSaveUser(reset, UpdateStreak(reset))
          /\ res' = Response("login", 200)

login(passwordOk) ==
  /\ ncalls < MaxCalls
  /\ ncalls' = ncalls + 1
  /\ LoginHandler(passwordOk)
  /\ UNCHANGED <<docVars, modifiedPaths, ret, statsVars, inflight>>
  /\ UNCHANGED limiterVars
  /\ UNCHANGED now

\* PUT /api/v1/auth/updatepassword; passwordOk is the outcome of
\* matchPassword on the current password
updatePassword(passwordOk) ==
  /\ ncalls < MaxCalls
  /\ ncalls' = ncalls + 1
  /\ IF ~passwordOk
     THEN /\ res' = [Response("updatePassword", 401) EXCEPT
                       !.error = "Password is incorrect"]
          /\ UNCHANGED user
     ELSE /\ user' = [user EXCEPT !.lastActiveDate = now]
          /\ res' = Response("updatePassword", 200)
  /\ UNCHANGED <<docVars, modifiedPaths, ret, now, statsVars, inflight,
                 limiterVars>>

\* time passes between two requests
Elapse(h) ==
  /\ now + HoursToTicks(h) <= 1 + HoursToTicks(MaxHours)
  /\ now' = now + HoursToTicks(h)
  /\ UNCHANGED <<docVars, modifiedPaths, ret, ncalls, serviceVars>>

(* ------------------ Controllers/userController: statistics ------------ *)
\* a Date as the UTC hour since the epoch; t is in clock ticks
UtcHour(t) == MathFloor(t * TickMs, 3600000)

OffsetAtUtc(tz, utcHour) ==
  IF tz.dst /\ utcHour >= tz.dstStart THEN tz.offset + 1 ELSE tz.offset

\* the offset of a local time; a local time the clocks skip is read with the
\* offset before the change
OffsetAtLocal(tz, localHour) ==
  IF tz.dst /\ localHour >= tz.dstStart + tz.offset + 1
  THEN tz.offset + 1 ELSE tz.offset

\* d = new Date(); d.setDate(d.getDate() - i): the same local time of day
\* i local days earlier, as UTC hour
DaysAgo(tz, t, i) ==
  LET localHour == UtcHour(t) + OffsetAtUtc(tz, UtcHour(t))
      target == localHour - 24 * i
  IN target - OffsetAtLocal(tz, target)

\* toISOString().split('T')[0] and $dateToString "%Y-%m-%d": the UTC calendar
\* day, written as the number of the day
DateString(utcHour) == MathFloor(utcHour, 24)

ObjectId(id) == [type |-> "ObjectId", id |-> id]

\* req.params.id || req.user.id
UserIdString(id) == [type |-> "String", id |-> id]

\* Progress.find({ user: userId }): mongoose casts the string to an ObjectId
FindProgress(docs, userId) ==
  SelectSeq(docs, LAMBDA p : p.user.id = userId.id)

\* the body of progress.forEach
StatsStepCountingAll(acc, p) ==
  IF p.lesson.resolved
  THEN LET category == p.lesson.category
           old == IF category \in DOMAIN acc.categoryStats
                  THEN acc.categoryStats[category]
                  ELSE [completed |-> 0, total |-> 0, points |-> 0]
           new == [completed |-> old.completed + 1, total |-> old.total + 1,
                   points |-> old.points + p.pointsEarned]
       IN [categoryStats |->
             [c \in DOMAIN acc.categoryStats \cup {category} |->
                IF c = category THEN new ELSE acc.categoryStats[c]],
           difficultyStats |->
             [acc.difficultyStats EXCEPT ![p.lesson.difficulty] = @ + 1],
           totalPointsFromLessons |->
             acc.totalPointsFromLessons + p.pointsEarned]
  ELSE acc

StatsStep(acc, p) ==
  IF p.lesson.resolved
  THEN LET category == p.lesson.category
           old == IF category \in DOMAIN acc.categoryStats
                  THEN acc.categoryStats[category]
                  ELSE [completed |-> 0, total |-> 0, points |-> 0]
           new == IF p.isCompleted
                  THEN [completed |-> old.completed + 1,
                        total |-> old.total + 1,
                        points |-> old.points + p.pointsEarned]
                  ELSE [old EXCEPT !.total = @ + 1]
       IN [categoryStats |->
             [c \in DOMAIN acc.categoryStats \cup {category} |->
                IF c = category THEN new ELSE acc.categoryStats[c]],
           difficultyStats |->
             IF p.isCompleted
             THEN [acc.difficultyStats EXCEPT ![p.lesson.difficulty] = @ + 1]
             ELSE acc.difficultyStats,
           totalPointsFromLessons |->
             IF p.isCompleted
             THEN acc.totalPointsFromLessons + p.pointsEarned
             ELSE acc.totalPointsFromLessons]
  ELSE acc

RECURSIVE ForEachProgress(_, _)
ForEachProgress(docs, acc) ==
  IF docs = <<>> THEN acc
  ELSE ForEachProgress(Tail(docs), StatsStep(acc, Head(docs)))

EmptyStats ==
  [categoryStats |-> <<>>,
   difficultyStats |-> [easy |-> 0, medium |-> 0, hard |-> 0],
   totalPointsFromLessons |-> 0]

\* the $match stage of getWeeklyProgress; aggregate() does not cast userId
WeeklyMatch(docs, userId, t) ==
  LET oneWeekAgoMs == t * TickMs
                      - (UtcHour(t) - DaysAgo(serverTz, t, 7)) * 3600000
  IN {i \in 1..Len(docs) :
        /\ docs[i].user = userId
        /\ docs[i].completedAt # NoDate
        /\ docs[i].completedAt * TickMs >= oneWeekAgoMs
        /\ docs[i].isCompleted}

RECURSIVE SumPoints(_, _)
SumPoints(docs, S) ==
  IF S = {} THEN 0
  ELSE LET i == CHOOSE j \in S : TRUE
       IN docs[i].pointsEarned + SumPoints(docs, S \ {i})

\* the $group stage: one entry per date string of completedAt
DailyProgress(docs, matched) ==
  LET dateOf(i) == DateString(UtcHour(docs[i].completedAt))
      dates == {dateOf(i) : i \in matched}
  IN [date \in dates |->
        LET group == {i \in matched : dateOf(i) = date}
        IN [lessonsCompleted |-> Cardinality(group),
            pointsEarned |-> SumPoints(docs, group)]]

\* getWeeklyProgress: the entries pushed for i = 6 down to 0
GetWeeklyProgress(docs, userId, t) ==
  LET dailyProgress == DailyProgress(docs, WeeklyMatch(docs, userId, t))
  IN [k \in 1..7 |->
        LET dateString == DateString(DaysAgo(serverTz, t, 7 - k))
            found == dateString \in DOMAIN dailyProgress
        IN [date |-> dateString,
            lessonsCompleted |->
              IF found THEN dailyProgress[dateString].lessonsCompleted ELSE 0,
            pointsEarned |->
              IF found THEN dailyProgress[dateString].pointsEarned ELSE 0]]

\* GET /api/v1/users/:id/stats and /me/stats
getUserStats(id) ==
  /\ ncalls < MaxCalls
  /\ ncalls' = ncalls + 1
  /\ IF id # 1
     THEN /\ res' = [Response("getUserStats", 404) EXCEPT
                       !.error = "User not found"]
          /\ UNCHANGED stats
     ELSE LET userId == UserIdString(id)
              progress == FindProgress(progressDocs, userId)
              acc == ForEachProgress(progress, EmptyStats)
          IN /\ stats' = [categoryStats |-> acc.categoryStats,
                          difficultyStats |-> acc.difficultyStats,
                          weeklyProgress |->
                            GetWeeklyProgress(progressDocs, userId, now),
                          totalPointsFromLessons |->
                            acc.totalPointsFromLessons]
             /\ res' = Response("getUserStats", 200)
  /\ UNCHANGED <<docVars, modifiedPaths, ret, now, user, progressDocs,
                 serverTz, inflight>>
  /\ UNCHANGED limiterVars

NoStats ==
  [categoryStats |-> <<>>,
   difficultyStats |-> [easy |-> 0, medium |-> 0, hard |-> 0],
   weeklyProgress |-> <<>>,
   totalPointsFromLessons |-> 0]

\* no statistics are requested
InitNoStats ==
  /\ progressDocs = <<>>
  /\ serverTz = [offset |-> 0, dst |-> FALSE, dstStart |-> 0]
  /\ stats = NoStats

(* ------------------------ middlewares/auth: rate limit ----------------- *)
MAX_ATTEMPTS == 5

WINDOW_MS == 15 * 60 * 1000

\* attempts.filter(timestamp => now - timestamp < WINDOW_MS)
RecentAttemptsInclusive(ipAttempts, t) ==
  SelectSeq(ipAttempts, LAMBDA timestamp : (t - timestamp) * TickMs <= WINDOW_MS)

RecentAttempts(ipAttempts, t) ==
  SelectSeq(ipAttempts, LAMBDA timestamp : (t - timestamp) * TickMs < WINDOW_MS)

\* exports.loginRateLimit for a request of clientIP; MaxRequests bounds the
\* requests of a behaviour
loginRateLimit(clientIP) ==
  LET ipAttempts == IF clientIP \in DOMAIN loginAttempts
                    THEN loginAttempts[clientIP] ELSE <<>>
      recentAttempts == RecentAttempts(ipAttempts, now)
  IN
  /\ ncalls < MaxRequests
  /\ ncalls' = ncalls + 1
  /\ IF Len(recentAttempts) >= MAX_ATTEMPTS
     THEN /\ loginAttempts' = (clientIP :> recentAttempts) @@ loginAttempts
          /\ res' = [Response("loginRateLimit", 429) EXCEPT
                       !.error = "Too many login attempts"]
          /\ UNCHANGED accepted
     ELSE /\ loginAttempts' =
               (clientIP :> Append(recentAttempts, now)) @@ loginAttempts
          /\ res' = Response("loginRateLimit", 0)
          /\ accepted' = Append(accepted, [ip |-> clientIP, at |-> now])
  /\ UNCHANGED <<docVars, modifiedPaths, now, ret, user, statsVars, inflight>>

MinutesToTicks(m) == (m * 60000 + TickMs - 1) \div TickMs

\* time passes between two login requests
Wait(m) ==
  /\ now + MinutesToTicks(m) <= 1 + MinutesToTicks(MaxMinutes)
  /\ now' = now + MinutesToTicks(m)
  /\ UNCHANGED <<docVars, modifiedPaths, ret, ncalls, serviceVars>>

\* no login request has passed the rate limit
InitNoLimiter ==
  /\ loginAttempts = <<>>
  /\ accepted = <<>>

(* ------------------------------- clock --------------------------------- *)
Tick ==
  /\ now < MaxNow
  /\ now' = now + 1
  /\ UNCHANGED <<docVars, modifiedPaths, ncalls, ret, serviceVars>>

(* ----------------------------- specification --------------------------- *)
Init ==
  /\ status = "not_started"
  /\ watchTime = 0
  /\ completionPercentage = 0
  /\ isCompleted = FALSE
  /\ completedAt = NoDate
  /\ startedAt = 1
  /\ lastWatch = [position |-> 0, timestamp |-> 1]
  /\ watchSessions = <<>>
  /\ rating = NoRating
  /\ pointsEarned = 0
  /\ attempts = 1
  /\ bookmarked = FALSE
  /\ bookmarkedAt = NoDate
  /\ timeSpent = 0
  /\ streakCount = 0
  /\ achievements = <<>>
  /\ childEngagement = [attentionLevel |-> 3, enjoymentLevel |-> 3,
                        confidenceLevel |-> 3]
  /\ lessonDuration = 0
  /\ modifiedPaths = {}
  /\ now = 1
  /\ ncalls = 0
  /\ ret = Returned("new")
  /\ user = NewUser(0)
  /\ res = Response("none", 0)
  /\ InitNoStats
  /\ inflight = <<>>
  /\ InitNoLimiter

Next ==
  \/ \E wt \in WatchTimes, td \in TotalDurations, pos \in Positions :
       updateProgress(wt, td, pos)
  \/ \E pos \in Positions : startWatchSession(pos)
  \/ \E pos \in Positions, flag \in BOOLEAN : endWatchSession(pos, flag)
  \/ \E a \in AchievementArgs : addAchievement(a[1], a[2])
  \/ save
  \/ Tick

Spec == Init /\ [][Next]_vars

(* ------------- calculatePoints applied to stored documents ------------- *)
InitPoints ==
  /\ isCompleted \in BOOLEAN
  /\ status = IF isCompleted THEN "completed" ELSE "in_progress"
  /\ watchTime = IF isCompleted THEN 80 ELSE 79
  /\ completionPercentage = watchTime
  /\ completedAt = IF isCompleted THEN 1 ELSE NoDate
  /\ startedAt = 1
  /\ lastWatch = [position |-> 1, timestamp |-> 1]
  /\ watchSessions = <<>>
  /\ rating \in RatingValues
  /\ pointsEarned = 0
  /\ attempts \in AttemptsValues
  /\ bookmarked = FALSE
  /\ bookmarkedAt = NoDate
  /\ timeSpent \in TimeSpentValues
  /\ streakCount \in StreakValues
  /\ achievements = IF isCompleted
                    THEN <<[name |-> "Lesson Completed", type |-> "completion",
                            unlockedAt |-> 1]>>
                    ELSE <<>>
  /\ \E a \in EngagementValues, e \in EngagementValues :
       childEngagement = [attentionLevel |-> a, enjoymentLevel |-> e,
                          confidenceLevel |-> 3]
  /\ lessonDuration \in LessonDurationValues
  /\ modifiedPaths = {}
  /\ now = 1
  /\ ncalls = 0
  /\ ret = Returned("new")
  /\ user = NewUser(0)
  /\ res = Response("none", 0)
  /\ InitNoStats
  /\ inflight = <<>>
  /\ InitNoLimiter

NextPoints ==
  \E basePoints \in BasePointsArgs, lessonDifficulty \in DifficultyArgs :
    calculatePoints(basePoints, lessonDifficulty)

SpecPoints == InitPoints /\ [][NextPoints]_vars

(* -------------------- requests on one stored user ---------------------- *)
\* the Progress document of the other specifications, left untouched
InitDocument ==
  /\ status = "not_started"
  /\ watchTime = 0
  /\ completionPercentage = 0
  /\ isCompleted = FALSE
  /\ completedAt = NoDate
  /\ startedAt = 1
  /\ lastWatch = [position |-> 0, timestamp |-> 1]
  /\ watchSessions = <<>>
  /\ rating = NoRating
  /\ pointsEarned = 0
  /\ attempts = 1
  /\ bookmarked = FALSE
  /\ bookmarkedAt = NoDate
  /\ timeSpent = 0
  /\ streakCount = 0
  /\ achievements = <<>>
  /\ childEngagement = [attentionLevel |-> 3, enjoymentLevel |-> 3,
                        confidenceLevel |-> 3]
  /\ lessonDuration = 0
  /\ modifiedPaths = {}
  /\ ret = Returned("new")

InitAchievements ==
  /\ InitDocument
  /\ now = 1
  /\ ncalls = 0
  /\ user = NewUser(0)
  /\ res = Response("none", 0)
  /\ InitNoStats
  /\ inflight = <<>>
  /\ InitNoLimiter

NextAchievements ==
  \E name \in UserAchievementNames, points \in PointsArgs :
    authAddAchievement(name, points)

SpecAchievements == InitAchievements /\ [][NextAchievements]_vars

InitLogin ==
  /\ InitDocument
  /\ now = 1
  /\ ncalls = 0
  /\ \E streakDays \in StreakDaysValues : user = NewUser(streakDays)
  /\ res = Response("none", 0)
  /\ InitNoStats
  /\ inflight = <<>>
  /\ InitNoLimiter

NextLogin ==
  \/ \E passwordOk \in BOOLEAN : login(passwordOk)
  \/ \E h \in ElapseHours : Elapse(h)

SpecLogin == InitLogin /\ [][NextLogin]_vars

(* ------------------- statistics of a stored collection ----------------- *)
\* the Progress documents a collection can hold at the time t
ProgressDocument(id, lesson, pr, t) ==
  [user |-> ObjectId(id), lesson |-> lesson,
   isCompleted |-> pr.isCompleted, pointsEarned |-> pr.pointsEarned,
   completedAt |-> IF pr.isCompleted THEN t - HoursToTicks(pr.hoursAgo)
                   ELSE NoDate]

\* every document of user 1, and one completed lesson of another user
ProgressDocuments(t) ==
  {ProgressDocument(1, lesson, pr, t) : lesson \in Lessons, pr \in DocProgress}
  \cup {ProgressDocument(2, [resolved |-> TRUE, category |-> "basics",
                             difficulty |-> "easy"],
                         [isCompleted |-> TRUE, pointsEarned |-> 10,
                          hoursAgo |-> 48], t)}

InitStats ==
  /\ InitDocument
  /\ ncalls = 0
  /\ \E hour \in NowHours : now = 1 + HoursToTicks(Today * 24 + hour)
  /\ user = NewUser(0)
  /\ res = Response("none", 0)
  /\ \E n \in 0..MaxDocs : progressDocs \in [1..n -> ProgressDocuments(now)]
  /\ serverTz \in TimeZones
  /\ stats = NoStats
  /\ inflight = <<>>
  /\ InitNoLimiter

NextStats == \E id \in UserIds : getUserStats(id)

SpecStats == InitStats /\ [][NextStats]_vars

(* --------------------- concurrent requests on a record ----------------- *)
Requests == {1, 2}                       \* the requests served concurrently

\* the request r is in flight at the step pc
At(r, pc) == r \in DOMAIN inflight /\ inflight[r].pc = pc

Finished(r) == [x \in DOMAIN inflight \ {r} |-> inflight[x]]

\* the paths mongoose tracks as modified: those set to another value
ModifiedFields(loaded, doc) == {f \in DOMAIN loaded : loaded[f] # doc[f]}

\* doc.save() of a loaded document: updateOne with $set of the modified paths
SaveModifiedPaths(cur, loaded, doc) ==
  [f \in DOMAIN cur |->
     IF f \in ModifiedFields(loaded, doc) THEN doc[f] ELSE cur[f]]

\* the stored Progress document of one (user, lesson) pair when created
NewProgress ==
  [user |-> ObjectId(1),
   lesson |-> [resolved |-> TRUE, category |-> "basics", difficulty |-> "easy"],
   status |-> "not_started", watchTime |-> 0, completionPercentage |-> 0,
   isCompleted |-> FALSE, completedAt |-> NoDate, pointsEarned |-> 0]

\* updateProgress applied to a loaded document
UpdateProgressDoc(doc, wt, totalDuration) ==
  LET newWatchTime == NextWatchTime(doc.watchTime, wt)
      newPct == CompletionPercentage(doc.completionPercentage, newWatchTime,
                                     totalDuration)
  IN IF Completes(newPct, doc.isCompleted)
     THEN [doc EXCEPT !.watchTime = newWatchTime,
                      !.completionPercentage = newPct,
                      !.isCompleted = TRUE,
                      !.completedAt = now,
                      !.status = "completed"]
     ELSE [doc EXCEPT !.watchTime = newWatchTime,
                      !.completionPercentage = newPct,
                      !.status = StatusInProgress(doc.status, newPct)]

\* a recordProgress request loads the record of the (user, lesson) pair
recordProgressLoad(r) ==
  /\ r \notin DOMAIN inflight
  /\ ncalls < MaxCalls
  /\ inflight' = (r :> [pc |-> "loaded", loaded |-> progressDocs[1],
                        doc |-> progressDocs[1]]) @@ inflight
  /\ UNCHANGED <<docVars, modifiedPaths, now, ncalls, ret, user, res,
                 statsVars>>
  /\ UNCHANGED limiterVars

\* it applies updateProgress to the loaded document
recordProgressUpdate(r, wt, totalDuration) ==
  /\ At(r, "loaded")
  /\ inflight' = [inflight EXCEPT
                    ![r].pc = "updated",
                    ![r].doc = UpdateProgressDoc(@, wt, totalDuration)]
  /\ UNCHANGED <<docVars, modifiedPaths, now, ncalls, ret, user, res,
                 statsVars>>
  /\ UNCHANGED limiterVars

\* it saves the document and answers
recordProgressSave(r) ==
  /\ At(r, "updated")
  /\ ncalls' = ncalls + 1
  /\ progressDocs' = [progressDocs EXCEPT
                        ![1] = SaveModifiedPaths(@, inflight[r].loaded,
                                                 inflight[r].doc)]
  /\ res' = Response("recordProgress", 200)
  /\ inflight' = Finished(r)
  /\ UNCHANGED <<docVars, modifiedPaths, now, ret, user, serverTz, stats>>
  /\ UNCHANGED limiterVars

InitRecordProgress ==
  /\ InitDocument
  /\ ncalls = 0
  /\ now = 1
  /\ user = NewUser(0)
  /\ res = Response("none", 0)
  /\ progressDocs = <<NewProgress>>
  /\ serverTz = [offset |-> 0, dst |-> FALSE, dstStart |-> 0]
  /\ stats = NoStats
  /\ inflight = <<>>
  /\ InitNoLimiter

NextRecordProgress ==
  \/ \E r \in Requests : recordProgressLoad(r)
  \/ \E r \in Requests, wt \in WatchTimes, totalDuration \in TotalDurations :
       recordProgressUpdate(r, wt, totalDuration)
  \/ \E r \in Requests : recordProgressSave(r)
  \/ Tick

SpecRecordProgress == InitRecordProgress /\ [][NextRecordProgress]_vars

(* ------------------ concurrent addAchievement requests ----------------- *)
\* user.save() of a loaded user: the pre-save hook, then updateOne with $push
\* of the pushed achievements and $set of the other modified paths
SaveUser(cur, loaded, doc) ==
  LET hooked == PreSaveUser(loaded, doc)
      pushed == SubSeq(doc.achievements, Len(loaded.achievements) + 1,
                       Len(doc.achievements))
  IN [f \in DOMAIN cur |->
        IF f = "achievements" THEN cur.achievements \o pushed
        ELSE IF hooked[f] # loaded[f] THEN hooked[f] ELSE cur[f]]

\* POST /api/v1/auth/achievement up to the call of user.save(): findById,
\* the check of the name, the push and addPoints
achievementRequest(r, name, points) ==
  /\ r \notin DOMAIN inflight
  /\ ncalls < MaxCalls
  /\ IF ExistingAchievement(user.achievements, name)
     THEN /\ res' = [Response("addAchievement", 400) EXCEPT
                       !.error = "Achievement already earned"]
          /\ ncalls' = ncalls + 1
          /\ UNCHANGED inflight
     ELSE LET pushed == [user EXCEPT !.achievements =
                           Append(@, [name |-> name, points |-> points,
                                      earnedAt |-> now])]
          IN /\ inflight' = (r :> [pc |-> "saving", loaded |-> user,
                                   doc |-> AddPoints(pushed, points)])
                            @@ inflight
             /\ UNCHANGED <<res, ncalls>>
  /\ UNCHANGED <<docVars, modifiedPaths, now, ret, user, statsVars>>
  /\ UNCHANGED limiterVars

\* user.save() and the 200 response
achievementSave(r) ==
  /\ At(r, "saving")
  /\ ncalls' = ncalls + 1
  /\ user' = SaveUser(user, inflight[r].loaded, inflight[r].doc)
  /\ res' = [Response("addAchievement", 200) EXCEPT
               !.leveledUp = (inflight[r].doc.level # inflight[r].loaded.level),
               !.newLevel = inflight[r].doc.level,
               !.totalPoints = inflight[r].doc.totalPoints]
  /\ inflight' = Finished(r)
  /\ UNCHANGED <<docVars, modifiedPaths, now, ret, statsVars>>
  /\ UNCHANGED limiterVars

NextConcurrentAchievements ==
  \/ \E r \in Requests, name \in UserAchievementNames, points \in PointsArgs :
       achievementRequest(r, name, points)
  \/ \E r \in Requests : achievementSave(r)

SpecConcurrentAchievements ==
  InitAchievements /\ [][NextConcurrentAchievements]_vars

(* ----------------------- concurrent login requests --------------------- *)
FailedBefore == {0, 3, 4}                \* loginAttempts of the stored user

\* incLoginAttempts called on the loaded document u: the update is chosen
\* from u and updateOne applies it to the stored document cur
IncLoginAttemptsOn(cur, u) ==
  IF u.lockUntil # NoDate /\ u.lockUntil < now
  THEN [cur EXCEPT !.lockUntil = NoDate, !.loginAttempts = 1]
  ELSE IF u.loginAttempts + 1 >= 5 /\ ~IsLocked(u)
       THEN [cur EXCEPT !.loginAttempts = @ + 1,
                        !.lockUntil = now + HoursToTicks(2)]
       ELSE [cur EXCEPT !.loginAttempts = @ + 1]

\* login up to the call of matchPassword: findOne and the isLocked check
loginFind(r, passwordOk) ==
  /\ r \notin DOMAIN inflight
  /\ ncalls < MaxCalls
  /\ IF IsLocked(user)
     THEN /\ res' = [Response("login", 423) EXCEPT
                       !.error = "Account is locked"]
          /\ ncalls' = ncalls + 1
          /\ UNCHANGED inflight
     ELSE /\ inflight' = (r :> [pc |-> "matching", loaded |-> user,
                                doc |-> user, passwordOk |-> passwordOk])
                         @@ inflight
          /\ UNCHANGED <<res, ncalls>>
  /\ UNCHANGED <<docVars, modifiedPaths, now, ret, user, statsVars>>
  /\ UNCHANGED limiterVars

\* matchPassword has answered: incLoginAttempts and 401, or
\* resetLoginAttempts and updateStreak
loginMatched(r) ==
  /\ At(r, "matching")
  /\ IF ~inflight[r].passwordOk
     THEN /\ user' = IncLoginAttemptsOn(user, inflight[r].loaded)
          /\ res' = [Response("login", 401) EXCEPT
                       !.error = "Invalid credentials"]
          /\ ncalls' = ncalls + 1
          /\ inflight' = Finished(r)
     ELSE /\ user' = IF inflight[r].loaded.loginAttempts > 0
                     THEN ResetLoginAttempts(user) ELSE user
          /\ inflight' = [inflight EXCEPT
                            ![r].pc = "saving",
                            ![r].doc = UpdateStreak(@)]
          /\ UNCHANGED <<res, ncalls>>
  /\ UNCHANGED <<docVars, modifiedPaths, now, ret, statsVars>>
  /\ UNCHANGED limiterVars

\* user.save() and the token response
loginSave(r) ==
  /\ At(r, "saving")
  /\ user' = SaveUser(user, inflight[r].loaded, inflight[r].doc)
  /\ res' = Response("login", 200)
  /\ ncalls' = ncalls + 1
  /\ inflight' = Finished(r)
  /\ UNCHANGED <<docVars, modifiedPaths, now, ret, statsVars>>
  /\ UNCHANGED limiterVars

InitConcurrentLogin ==
  /\ InitDocument
  /\ now = 1
  /\ ncalls = 0
  /\ \E n \in FailedBefore : user = [NewUser(0) EXCEPT !.loginAttempts = n]
  /\ res = Response("none", 0)
  /\ InitNoStats
  /\ inflight = <<>>
  /\ InitNoLimiter

NextConcurrentLogin ==
  \/ \E r \in Requests, passwordOk \in BOOLEAN : loginFind(r, passwordOk)
  \/ \E r \in Requests : loginMatched(r)
  \/ \E r \in Requests : loginSave(r)
  \/ \E h \in ElapseHours : Elapse(h)

SpecConcurrentLogin == InitConcurrentLogin /\ [][NextConcurrentLogin]_vars

(* --------------------------- rate-limited logins ----------------------- *)
InitRateLimit ==
  /\ InitDocument
  /\ now = 1
  /\ ncalls = 0
  /\ user = NewUser(0)
  /\ res = Response("none", 0)
  /\ InitNoStats
  /\ inflight = <<>>
  /\ InitNoLimiter

NextRateLimit ==
  \/ \E clientIP \in ClientIPs : loginRateLimit(clientIP)
  \/ \E m \in WaitMinutes : Wait(m)

SpecRateLimit == InitRateLimit /\ [][NextRateLimit]_vars

(* ----------------------------- routes/userRoutes ----------------------- *)
Route(method, pattern, middleware, handler) ==
  [method |-> method, pattern |-> pattern, middleware |-> middleware,
   handler |-> handler]

\* the routes of the router in the order they are registered
UserRoutes ==
  << Route("GET", <<>>, "authorize", "getUsers"),
     Route("POST", <<>>, "authorize", "createUser"),
     Route("GET", <<":id">>, "authorize", "getUser"),
     Route("PUT", <<":id">>, "authorize", "updateUser"),
     Route("DELETE", <<":id">>, "authorize", "deleteUser"),
     Route("GET", <<":id", "progress">>, "checkOwnership", "getUserProgress"),
     Route("GET", <<":id", "achievements">>, "checkOwnership",
           "getUserAchievements"),
     Route("GET", <<":id", "bookmarks">>, "checkOwnership", "getUserBookmarks"),
     Route("GET", <<":id", "stats">>, "checkOwnership", "getUserStats"),
     Route("PUT", <<":id", "avatar">>, "checkOwnership", "updateAvatar"),
     Route("GET", <<"me", "progress">>, "none", "getUserProgress"),
     Route("GET", <<"me", "achievements">>, "none", "getUserAchievements"),
     Route("GET", <<"me", "bookmarks">>, "none", "getUserBookmarks"),
     Route("GET", <<"me", "stats">>, "none", "getUserStats"),
     Route("PUT", <<"me", "avatar">>, "none", "updateAvatar") >>

\* express matches a path segment by segment; :id takes any segment
Matches(route, method, path) ==
  /\ route.method = method
  /\ Len(route.pattern) = Len(path)
  /\ \A i \in 1..Len(path) :
       route.pattern[i] = ":id" \/ route.pattern[i] = path[i]

\* req.params.id, "" when the route has no :id
ParamsId(route, path) ==
  IF \E i \in 1..Len(path) : route.pattern[i] = ":id"
  THEN path[CHOOSE i \in 1..Len(path) : route.pattern[i] = ":id"]
  ELSE ""

\* the first registered route that matches, 0 when none does
FirstMatchIn(routes, method, path) ==
  IF \E i \in 1..Len(routes) : Matches(routes[i], method, path)
  THEN CHOOSE i \in 1..Len(routes) :
         /\ Matches(routes[i], method, path)
         /\ \A j \in 1..(i - 1) : ~Matches(routes[j], method, path)
  ELSE 0

\* authorize('admin') and checkOwnership: the status they refuse with, 0 when
\* they call next()
Refusal(middleware, requester, paramsId) ==
  CASE middleware = "authorize" ->
         IF requester.role # "admin" THEN 403 ELSE 0
    [] middleware = "checkOwnership" ->
         IF requester.role = "admin" THEN 0
         ELSE IF paramsId # "" /\ paramsId # requester.id THEN 403 ELSE 0
    [] OTHER -> 0

StoredUserIds == {"1", "2"}              \* the _id of the stored users
Requesters == {[id |-> "1", role |-> "user"], [id |-> "2", role |-> "admin"]}
Methods == {"GET", "PUT"}
Paths == {<<first, second>> :
            first \in {"me", "1", "2"},
            second \in {"progress", "achievements", "bookmarks", "stats",
                        "avatar"}}
         \cup {<<"1">>, <<>>}

\* an authenticated request reaches the router: the route is matched and its
\* middleware runs
route(r, method, path, requester) ==
  LET routes == UserRoutes
      n == FirstMatchIn(routes, method, path)
      paramsId == ParamsId(routes[n], path)
      refused == Refusal(routes[n].middleware, requester, paramsId)
  IN
  /\ r \notin DOMAIN inflight
  /\ ncalls < MaxCalls
  /\ IF n = 0
     THEN /\ res' = [Response("notFound", 404) EXCEPT !.error = "Not found"]
          /\ ncalls' = ncalls + 1
          /\ UNCHANGED inflight
     ELSE IF refused # 0
     THEN /\ res' = [Response(routes[n].middleware, refused) EXCEPT
                       !.error = "Not authorized"]
          /\ ncalls' = ncalls + 1
          /\ UNCHANGED inflight
     ELSE /\ inflight' =
               (r :> [pc |-> "handler", handler |-> routes[n].handler,
                      userId |-> IF paramsId # "" THEN paramsId
                                 ELSE requester.id,
                      requester |-> requester]) @@ inflight
          /\ UNCHANGED <<res, ncalls>>
  /\ UNCHANGED <<docVars, modifiedPaths, now, ret, user, statsVars,
                 limiterVars>>

\* the handler looks the user up and answers
handle(r) ==
  /\ At(r, "handler")
  /\ res' = IF inflight[r].userId \in StoredUserIds
            THEN Response(inflight[r].handler, 200)
            ELSE [Response(inflight[r].handler, 404) EXCEPT
                    !.error = "Resource not found"]
  /\ ncalls' = ncalls + 1
  /\ inflight' = Finished(r)
  /\ UNCHANGED <<docVars, modifiedPaths, now, ret, user, statsVars,
                 limiterVars>>

NextRoutes ==
  \/ \E r \in Requests, method \in Methods, path \in Paths,
        requester \in Requesters : route(r, method, path, requester)
  \/ \E r \in Requests : handle(r)

SpecRoutes == InitRateLimit /\ [][NextRoutes]_vars

(* ------------------------- routes/authRoutes: login -------------------- *)
\* router.post('/login', loginRateLimit, login)
postLogin(clientIP, passwordOk) ==
  LET ipAttempts == IF clientIP \in DOMAIN loginAttempts
                    THEN loginAttempts[clientIP] ELSE <<>>
      recentAttempts == RecentAttempts(ipAttempts, now)
  IN
  /\ ncalls < MaxCalls
  /\ ncalls' = ncalls + 1
  /\ IF Len(recentAttempts) >= MAX_ATTEMPTS
     THEN /\ loginAttempts' = (clientIP :> recentAttempts) @@ loginAttempts
          /\ res' = [Response("loginRateLimit", 429) EXCEPT
                       !.error = "Too many login attempts"]
          /\ UNCHANGED <<accepted, user>>
     ELSE /\ loginAttempts' =
               (clientIP :> Append(recentAttempts, now)) @@ loginAttempts
          /\ accepted' = Append(accepted, [ip |-> clientIP, at |-> now])
          /\ LoginHandler(passwordOk)
  /\ UNCHANGED <<docVars, modifiedPaths, ret, now, statsVars, inflight>>

\* the user logs in with the right password, earns achievements and changes
\* the password as time passes
NextStreak ==
  \/ postLogin("a", TRUE)
  \/ \E name \in UserAchievementNames : authAddAchievement(name, 50)
  \/ \E passwordOk \in BOOLEAN : updatePassword(passwordOk)
  \/ \E h \in ElapseHours : Elapse(h)

SpecStreak == InitLogin /\ [][NextStreak]_vars

(* =============================== claims ================================ *)
\* the step is a call of the method op
IsCall(op) == ncalls' = ncalls + 1 /\ ret'.op = op

CountNamed(list, name) ==
  Cardinality({i \in 1..Len(list) : list[i].name = name})

OpenSessions == {i \in 1..Len(watchSessions) : watchSessions[i].endTime = NoDate}

ClosedSessions == {i \in 1..Len(watchSessions) : watchSessions[i].endTime # NoDate}

RECURSIVE SumOver(_, _)
SumOver(f, S) ==
  IF S = {} THEN 0
  ELSE LET i == CHOOSE j \in S : TRUE IN f[i] + SumOver(f, S \ {i})

\* C1: over every sequence of calls watchTime never decreases from one call
\* to the next and completionPercentage stays within 0..100.
C1_WatchTimeMonotone ==
  [][watchTime' >= watchTime /\ completionPercentage' \in 0..100]_vars

\* an updateProgress call whose quotient exceeded 100 has been capped
C1_Witness ==
  /\ ret.op = "updateProgress"
  /\ watchTime > 100
  /\ completionPercentage = 100

\* C2: once isCompleted is true it stays true and completedAt keeps its value
\* over every later call (startWatchSession, updateProgress, endWatchSession,
\* addAchievement, save).
C2_CompletionIsPermanent ==
  [][isCompleted => (isCompleted' /\ completedAt' = completedAt)]_vars

\* a completed document has been saved at a later time than its completion
C2_Witness ==
  /\ isCompleted
  /\ ret.op = "save"
  /\ now > completedAt

\* C3: an updateProgress call that leaves completionPercentage >= 80 on a
\* document that was not completed completes it (isCompleted, status,
\* completedAt, the "Lesson Completed" achievement, {completed, firstTime});
\* one that leaves 1..79 on a not_started document moves it to in_progress
\* and returns completed: false.
C3_CompletionTransition ==
  [][IsCall("updateProgress") =>
       /\ (completionPercentage' >= 80 /\ ~isCompleted) =>
            /\ isCompleted'
            /\ status' = "completed"
            /\ completedAt' = now
            /\ \E i \in 1..Len(achievements') :
                 /\ achievements'[i].name = "Lesson Completed"
                 /\ achievements'[i].type = "completion"
            /\ ret'.completed
            /\ ret'.firstTime
       /\ (completionPercentage' \in 1..79 /\ status = "not_started") =>
            /\ status' = "in_progress"
            /\ ~isCompleted'
            /\ ~ret'.completed]_vars

\* the call updateProgress(80, 100, _) has just completed the document
C3_Witness ==
  /\ ret.op = "updateProgress"
  /\ ret.completed /\ ret.firstTime
  /\ watchTime = 80 /\ completionPercentage = 80
  /\ isCompleted /\ status = "completed" /\ completedAt = now

\* C4: a document completes at most once: a call returns completed: true
\* only on the step that turns isCompleted from false to true, and every
\* updateProgress call on a completed document returns completed: false,
\* keeps completedAt and adds no "Lesson Completed" achievement.
C4_CompletesAtMostOnce ==
  [][IsCall("updateProgress") =>
       /\ ret'.completed => (~isCompleted /\ isCompleted')
       /\ isCompleted =>
            /\ isCompleted'
            /\ ~ret'.completed
            /\ completedAt' = completedAt
            /\ CountNamed(achievements', "Lesson Completed")
                 = CountNamed(achievements, "Lesson Completed")]_vars

\* an updateProgress call made after the completion left a percentage >= 80
C4_Witness ==
  /\ ret.op = "updateProgress"
  /\ ~ret.completed
  /\ isCompleted
  /\ completionPercentage >= 80
  /\ now > completedAt

\* C5: updateProgress with watchTime < 0 or totalDuration <= 0 (the inputs
\* validateProgress rejects with "Invalid progress data") throws and leaves
\* watchTime, completionPercentage, status, isCompleted, lastWatch and
\* achievements unchanged.
C5_InvalidInputRejected ==
  [][\A wt \in WatchTimes, td \in TotalDurations, pos \in Positions :
       (updateProgress(wt, td, pos)
          /\ validateProgress(wt, td) = "Invalid progress data") =>
         /\ ret'.error = "InvalidInput"
         /\ UNCHANGED <<watchTime, completionPercentage, status, isCompleted,
                        lastWatch, achievements>>]_vars

\* C6: watchSessions holds at most one open entry.
C6_AtMostOneOpenSession == Cardinality(OpenSessions) <= 1

\* C7: startWatchSession on a document with an open session fails with
\* InvalidState and appends no session.
C7_StartWhileOpenFails ==
  [][\A pos \in Positions :
       (startWatchSession(pos) /\ OpenSessions # {}) =>
         /\ ret'.error = "InvalidState"
         /\ watchSessions' = watchSessions]_vars

\* C8: endWatchSession closes the most recent open session whenever one is
\* open (endTime, duration, completed, timeSpent, lastWatch.position) and
\* changes nothing only when no session is open.
C8_EndClosesMostRecentOpen ==
  [][\A pos \in Positions, flag \in BOOLEAN :
       endWatchSession(pos, flag) =>
         IF OpenSessions # {}
         THEN LET i == CHOOSE j \in OpenSessions :
                         \A k \in OpenSessions : k <= j
              IN /\ watchSessions'[i].endTime = now
                 /\ watchSessions'[i].duration
                      = SessionDuration(watchSessions[i].startTime, now)
                 /\ watchSessions'[i].completed = flag
                 /\ timeSpent' = timeSpent + watchSessions'[i].duration
                 /\ lastWatch'.position = pos
         ELSE UNCHANGED docVars]_vars

\* C9: timeSpent equals the sum of the durations of the closed sessions of
\* watchSessions, and is therefore >= 0.
C9_TimeSpentIsClosedSum ==
  /\ timeSpent = SumOver([i \in ClosedSessions |-> watchSessions[i].duration],
                         ClosedSessions)
  /\ timeSpent >= 0

\* two sessions have been closed, one of them after a positive time
C9_Witness ==
  /\ Cardinality(ClosedSessions) >= 2
  /\ \E i \in ClosedSessions : watchSessions[i].duration >= 1
  /\ timeSpent >= 1

\* C10: calculatePoints returns 0 on every document whose isCompleted is
\* false, whatever basePoints, difficulty and the document's attempts,
\* rating, engagement and streakCount are.
C10_ZeroUnlessCompleted ==
  [][\A basePoints \in BasePointsArgs, lessonDifficulty \in DifficultyArgs :
       (calculatePoints(basePoints, lessonDifficulty) /\ ~isCompleted) =>
         ret'.points = 0]_vars

\* calculatePoints(15, "hard") was called on a document that is not
\* completed although every bonus applies to it
C10_Witness ==
  /\ ret.op = "calculatePoints"
  /\ ret.args = <<15, "hard">>
  /\ ~isCompleted
  /\ attempts = 1 /\ rating = 5 /\ streakCount >= 7
  /\ childEngagement.enjoymentLevel >= 4
  /\ childEngagement.attentionLevel >= 4
  /\ lessonDuration # 0 /\ timeSpent < lessonDuration * 2
  /\ ret.points = 0

\* C11: on a completed document calculatePoints returns
\* round(basePoints * multiplier + bonuses), multiplier easy 1, medium 1.2,
\* hard 1.5, each percentage bonus floored on its own and one rounding (halves
\* up) at the end: the result r is the integer with r - 1/2 <= x < r + 1/2.
C11_PointsFormula ==
  [][\A basePoints \in BasePointsArgs, lessonDifficulty \in DifficultyArgs :
       (calculatePoints(basePoints, lessonDifficulty) /\ isCompleted) =>
         LET tenths == CASE lessonDifficulty = "medium" -> 12
                         [] lessonDifficulty = "hard" -> 15
                         [] OTHER -> 10
             first  == IF attempts = 1 THEN (basePoints * 25) \div 100 ELSE 0
             speed  == IF lessonDuration # 0 /\ timeSpent < 2 * lessonDuration
                       THEN (basePoints * 15) \div 100 ELSE 0
             rated  == IF rating >= 5 THEN 10 ELSE IF rating >= 4 THEN 5 ELSE 0
             engaged == IF childEngagement.enjoymentLevel >= 4
                           /\ childEngagement.attentionLevel >= 4
                        THEN 5 ELSE 0
             streak == IF streakCount >= 7 THEN (basePoints * 10) \div 100
                       ELSE 0
             x10 == basePoints * tenths
                    + 10 * (first + speed + rated + engaged + streak)
             r == ret'.points
         IN 10 * r - 5 <= x10 /\ x10 < 10 * r + 5]_vars

\* the worked example: basePoints 10, medium, attempts 1, timeSpent 50,
\* lesson duration 60, rating 5, engagement 5/5, streakCount 7 give 31
C11_Witness ==
  /\ ret.op = "calculatePoints"
  /\ ret.args = <<10, "medium">>
  /\ isCompleted
  /\ attempts = 1 /\ timeSpent = 50 /\ lessonDuration = 60 /\ rating = 5
  /\ childEngagement.enjoymentLevel = 5
  /\ childEngagement.attentionLevel = 5
  /\ streakCount = 7
  /\ ret.points = 31

\* C12: calculatePoints changes no field of the document (pointsEarned
\* included) and a call repeated with the same arguments on the same
\* document returns the same value.
C12_CalculatePointsIsPure ==
  [][IsCall("calculatePoints") =>
       /\ UNCHANGED docVars
       /\ (ret.op = "calculatePoints" /\ ret'.args = ret.args) =>
            ret'.points = ret.points]_vars

\* calculatePoints was called several times on a completed document and
\* returned points that were not stored
C12_Witness ==
  /\ ret.op = "calculatePoints"
  /\ ncalls >= 2
  /\ isCompleted
  /\ ret.points > 0
  /\ pointsEarned = 0

\* C13: addAchievement(name, type) on a document that holds no achievement
\* of that name appends one entry of that name and returns true; on a
\* document that holds one it returns false and leaves achievements
\* unchanged; a name once held stays held, so true is returned at most once
\* per name.
C13_AddAchievementOncePerName ==
  [][/\ IsCall("addAchievement") =>
          \A a \in AchievementArgs :
            addAchievement(a[1], a[2]) =>
              IF \A i \in 1..Len(achievements) : achievements[i].name # a[1]
              THEN /\ ret'.added
                   /\ Len(achievements') = Len(achievements) + 1
                   /\ SubSeq(achievements', 1, Len(achievements)) = achievements
                   /\ achievements'[Len(achievements')].name = a[1]
                   /\ achievements'[Len(achievements')].type = a[2]
              ELSE /\ ~ret'.added
                   /\ achievements' = achievements
     /\ achievements' # achievements =>
          \A i \in 1..Len(achievements) :
            \E j \in 1..Len(achievements') :
              achievements'[j].name = achievements[i].name]_vars

\* addAchievement("Fast Learner", _) was called again on a document that
\* already held it: false was returned and the entry is there once
C13_Witness ==
  /\ ret.op = "addAchievement"
  /\ ~ret.added
  /\ Len(achievements) = 1
  /\ achievements[1].name = "Fast Learner"

\* C14: the achievements of a document contain no two entries with the same
\* name.
C14_AchievementNamesUnique ==
  \A i, j \in 1..Len(achievements) :
    i # j => achievements[i].name # achievements[j].name

\* the step is a request answered by handler
IsRequest(handler) == ncalls' = ncalls + 1 /\ res'.handler = handler

\* the user already holds an achievement of that name
Holds(name) ==
  \E i \in 1..Len(user.achievements) : user.achievements[i].name = name

C16_LevelDerivedFromPoints ==
  LET derived == (user.totalPoints \div 100) + 1 IN
  user.level = IF derived > 10 THEN 10 ELSE derived

\* C17: level never decreases and never exceeds 10, and the request that
\* calls addPoints reports leveledUp exactly when the call raised level.
C17_LevelMonotoneAndReported ==
  [][/\ user'.level >= user.level
     /\ user'.level <= 10
     /\ (IsRequest("addAchievement") /\ res'.status = 200) =>
          (res'.leveledUp <=> user'.level > user.level)]_vars

\* at level 10 a further addPoints call raised totalPoints past 1000 and
\* reported no level-up
C17_Witness ==
  /\ res.handler = "addAchievement"
  /\ res.status = 200
  /\ ~res.leveledUp
  /\ user.level = 10
  /\ user.totalPoints >= 1000

\* C18: updateStreak, with diff the whole days elapsed since lastActiveDate,
\* leaves streakDays unchanged when diff = 0, adds 1 when diff = 1 and sets
\* streakDays to 1 when diff > 1.
C18_UpdateStreak ==
  [][(IsRequest("login") /\ res'.status = 200) =>
       LET elapsedMs == (IF now >= user.lastActiveDate
                         THEN now - user.lastActiveDate
                         ELSE user.lastActiveDate - now) * TickMs
           diff == CHOOSE d \in 0..(MaxHours + 24) :
                     /\ d * 86400000 <= elapsedMs
                     /\ elapsedMs < (d + 1) * 86400000
       IN user'.streakDays = CASE diff = 0 -> user.streakDays
                               [] diff = 1 -> user.streakDays + 1
                               [] OTHER    -> 1]_vars

\* the first login came three days after lastActiveDate and reset the streak
C18_Witness ==
  /\ res.handler = "login"
  /\ res.status = 200
  /\ ncalls = 1
  /\ (now - 1) * TickMs >= 3 * 86400000
  /\ user.streakDays = 1
  /\ user.lastActiveDate = now

\* indices of the documents of user 1 whose lesson resolves
ResolvedRecords ==
  {i \in 1..Len(progressDocs) :
     progressDocs[i].user.id = 1 /\ progressDocs[i].lesson.resolved}

CompletedRecords == {i \in ResolvedRecords : progressDocs[i].isCompleted}

PointsOf(S) ==
  SumOver([i \in 1..Len(progressDocs) |-> progressDocs[i].pointsEarned], S)

\* C19: in the statistics report each record whose lesson resolves adds 1 to
\* its category's total; only a completed record also adds 1 to the
\* category's completed count, its pointsEarned to the category's points and
\* to totalPointsFromLessons, and 1 to the difficulty histogram; a record
\* whose lesson does not resolve adds to none and the report is still
\* produced. Hence completed <= total per category and the histogram's sum
\* equals the sum of the completed counts.
C19_CategoryAndDifficultyStats ==
  (res.handler = "getUserStats" /\ res.status = 200) =>
    LET categories == {progressDocs[i].lesson.category : i \in ResolvedRecords}
        inCategory(S, c) == {i \in S : progressDocs[i].lesson.category = c}
        histogram == stats.difficultyStats
    IN /\ DOMAIN stats.categoryStats = categories
       /\ \A c \in categories :
            /\ stats.categoryStats[c].total =
                 Cardinality(inCategory(ResolvedRecords, c))
            /\ stats.categoryStats[c].completed =
                 Cardinality(inCategory(CompletedRecords, c))
            /\ stats.categoryStats[c].points =
                 PointsOf(inCategory(CompletedRecords, c))
            /\ stats.categoryStats[c].completed <= stats.categoryStats[c].total
       /\ stats.totalPointsFromLessons = PointsOf(CompletedRecords)
       /\ \A df \in {"easy", "medium", "hard"} :
            histogram[df] =
              Cardinality({i \in CompletedRecords :
                             progressDocs[i].lesson.difficulty = df})
       /\ histogram.easy + histogram.medium + histogram.hard =
            SumOver([c \in categories |-> stats.categoryStats[c].completed],
                    categories)

\* a report over an unresolved record and a category that holds a completed
\* and an uncompleted record
C19_Witness ==
  /\ res.handler = "getUserStats"
  /\ res.status = 200
  /\ \E i \in 1..Len(progressDocs) :
       /\ progressDocs[i].user.id = 1
       /\ ~progressDocs[i].lesson.resolved
       /\ progressDocs[i].isCompleted
  /\ \E c \in DOMAIN stats.categoryStats :
       /\ stats.categoryStats[c].total = 2
       /\ stats.categoryStats[c].completed = 1
       /\ stats.categoryStats[c].points > 0

\* C20: weeklyProgress always has exactly 7 entries, oldest to newest, with
\* dates strictly increasing by one calendar day and the last entry being
\* today, and every day without a completion has lessonsCompleted = 0 and
\* pointsEarned = 0.
C20_WeeklyProgressSevenDays ==
  (res.handler = "getUserStats" /\ res.status = 200) =>
    LET weekly == stats.weeklyProgress
        completedOn(day) ==
          {i \in 1..Len(progressDocs) :
             /\ progressDocs[i].user.id = 1
             /\ progressDocs[i].isCompleted
             /\ MathFloor(progressDocs[i].completedAt * TickMs, 86400000) = day}
    IN /\ Len(weekly) = 7
       /\ \A k \in 1..6 : weekly[k + 1].date = weekly[k].date + 1
       /\ weekly[7].date = MathFloor(now * TickMs, 86400000)
       /\ \A k \in 1..7 :
            completedOn(weekly[k].date) = {} =>
              /\ weekly[k].lessonsCompleted = 0
              /\ weekly[k].pointsEarned = 0

\* C21: for each of the 7 days of weeklyProgress, lessonsCompleted equals the
\* number of the requesting user's completed records whose completedAt falls
\* on that calendar day and pointsEarned equals the sum of their
\* pointsEarned; every record completed within the trailing week is counted
\* in exactly one entry.
C21_WeeklyCountsPerDay ==
  (res.handler = "getUserStats" /\ res.status = 200) =>
    LET weekly == stats.weeklyProgress
        dayOf(i) == MathFloor(progressDocs[i].completedAt * TickMs, 86400000)
        completions == {i \in 1..Len(progressDocs) :
                          /\ progressDocs[i].user.id = 1
                          /\ progressDocs[i].isCompleted}
        today == MathFloor(now * TickMs, 86400000)
    IN /\ \A k \in 1..Len(weekly) :
            LET on == {i \in completions : dayOf(i) = weekly[k].date}
            IN /\ weekly[k].lessonsCompleted = Cardinality(on)
               /\ weekly[k].pointsEarned = PointsOf(on)
       /\ \A i \in completions :
            dayOf(i) \in (today - 6)..today =>
              Cardinality({k \in 1..Len(weekly) :
                             weekly[k].date = dayOf(i)
                             /\ weekly[k].lessonsCompleted >= 1}) = 1

\* C22: startSession appends one open session; on a not_started record it
\* sets status to in_progress and stamps startedAt, and on an in_progress or
\* completed record it leaves status, startedAt, isCompleted, completedAt,
\* watchTime and completionPercentage unchanged.
C22_StartSessionEffect ==
  [][IsCall("startWatchSession") =>
       /\ Len(watchSessions') = Len(watchSessions) + 1
       /\ SubSeq(watchSessions', 1, Len(watchSessions)) = watchSessions
       /\ watchSessions'[Len(watchSessions')].endTime = NoDate
       /\ watchSessions'[Len(watchSessions')].startTime = now
       /\ IF status = "not_started"
          THEN /\ status' = "in_progress"
               /\ startedAt' = now
          ELSE /\ status \in {"in_progress", "completed"}
               /\ UNCHANGED <<status, startedAt, isCompleted, completedAt,
                              watchTime, completionPercentage>>]_vars

\* a session was started on a completed record, which stayed completed
C22_Witness ==
  /\ ret.op = "startWatchSession"
  /\ status = "completed"
  /\ isCompleted
  /\ watchSessions # <<>>
  /\ watchSessions[Len(watchSessions)].endTime = NoDate

StatusRank(st) ==
  CASE st = "not_started" -> 0 [] st = "in_progress" -> 1
    [] st = "completed" -> 2

\* C23: after any sequence of startSession, recordProgress and endSession
\* calls on a new record, status is 'completed' exactly when isCompleted is
\* true, completedAt is set exactly when isCompleted is true, and status
\* never moves backward in the order not_started, in_progress, completed.
C23_StatusFollowsCompletion ==
  /\ []((status = "completed" <=> isCompleted)
        /\ (completedAt # NoDate <=> isCompleted))
  /\ [][StatusRank(status') >= StatusRank(status)]_vars

\* a completed record went through in_progress and further calls of all
\* three methods left it completed
C23_Witness ==
  /\ status = "completed"
  /\ isCompleted
  /\ completedAt # NoDate
  /\ startedAt > 1
  /\ ret.op = "updateProgress"
  /\ ~ret.completed
  /\ \E i \in 1..Len(watchSessions) : watchSessions[i].endTime # NoDate

\* C24: after any sequence of recordProgress calls on one record, including
\* calls that pass different totalDuration values, a record with isCompleted
\* true has completionPercentage >= 80.
C24_CompletedMeansEightyPercent ==
  isCompleted => completionPercentage >= 80

\* C25: when two recordProgress requests on the same (user, lesson) record
\* each load the record, apply updateProgress and save it, then for every
\* interleaving no save makes the stored record lose progress: the stored
\* watchTime never decreases and a stored isCompleted = true is never
\* overwritten with false.
C25_NoSaveLosesProgress ==
  [][/\ progressDocs'[1].watchTime >= progressDocs[1].watchTime
     /\ progressDocs[1].isCompleted => progressDocs'[1].isCompleted]_vars

\* the most points an entry of that name carries
PointsOfName(name) ==
  LET P == {user.achievements[i].points :
              i \in {j \in 1..Len(user.achievements) :
                       user.achievements[j].name = name}}
  IN IF P = {} THEN 0 ELSE CHOOSE x \in P : \A y \in P : y <= x

\* C26: for every interleaving of addAchievement requests of one user the
\* stored user holds at most one achievement per name and the points of a
\* given achievement name are added to totalPoints at most once.
C26_OneAchievementPerName ==
  /\ \A name \in UserAchievementNames :
       CountNamed(user.achievements, name) <= 1
  /\ user.totalPoints <=
       SumOver([name \in UserAchievementNames |-> PointsOfName(name)],
               UserAchievementNames)

\* C27: the account is locked after 5 failed login attempts: for every
\* interleaving of failed login requests on one unlocked account, as soon as
\* the stored loginAttempts reaches 5 the account has lockUntil set 2 hours
\* ahead, and while locked every login (correct password or not) is answered
\* 423 without changing loginAttempts.
C27_LockedAfterFiveFailures ==
  [][/\ (user.loginAttempts < 5 /\ user'.loginAttempts >= 5) =>
          user'.lockUntil = now + HoursToTicks(2)
     /\ IsLocked(user) =>
          /\ user'.loginAttempts = user.loginAttempts
          /\ IsRequest("login") => res'.status = 423]_vars

\* the requests of ip let through less than 15 minutes before t
AcceptedWithin(ip, t) ==
  {i \in 1..Len(accepted) :
     /\ accepted[i].ip = ip
     /\ accepted[i].at <= t
     /\ (t - accepted[i].at) * TickMs < 15 * 60 * 1000}

\* C28: loginRateLimit lets through at most 5 login requests per client IP
\* in any 15-minute window: a request arriving when 5 accepted requests of
\* that IP lie within the preceding 15 minutes is rejected with 429 and is
\* not itself recorded, so a client that stops sending is accepted again 15
\* minutes after its oldest counted request; requests of other IPs do not
\* affect the count.
C28_FivePerWindow ==
  /\ [](\A ip \in ClientIPs : \A i \in 1..Len(accepted) :
          Cardinality(AcceptedWithin(ip, accepted[i].at)) <= 5)
  /\ [][IsRequest("loginRateLimit") =>
          \A ip \in ClientIPs :
            loginRateLimit(ip) =>
              IF Cardinality(AcceptedWithin(ip, now)) >= 5
              THEN /\ res'.status = 429
                   /\ accepted' = accepted
              ELSE /\ res'.status # 429
                   /\ accepted' = Append(accepted, [ip |-> ip, at |-> now])]_vars

\* client a was let through five times, then rejected, and let through
\* again once its oldest requests were 15 minutes old
C28_Witness ==
  /\ ncalls = 7
  /\ Len(accepted) = 6
  /\ \A i \in 1..Len(accepted) : accepted[i].ip = "a"
  /\ res.handler = "loginRateLimit"
  /\ res.status = 0
  /\ (now - accepted[1].at) * TickMs >= 15 * 60 * 1000
  /\ (now - accepted[1].at) * TickMs < 16 * 60 * 1000

OwnDataSections == {"progress", "achievements", "bookmarks", "stats", "avatar"}

\* C29: an authenticated non-admin user requesting /me/progress,
\* /me/achievements, /me/bookmarks, /me/stats or /me/avatar reaches the
\* handler, which acts on that user's own id, while a non-admin user
\* requesting /:id/... with another user's id is refused with 403.
C29_MeRoutesReachOwnData ==
  [][\A r \in Requests, method \in Methods, path \in Paths,
        requester \in Requesters :
       (/\ route(r, method, path, requester)
        /\ requester.role # "admin"
        /\ Len(path) = 2
        /\ path[2] \in OwnDataSections
        /\ method = (IF path[2] = "avatar" THEN "PUT" ELSE "GET")) =>
         CASE path[1] = "me" ->
                /\ r \in DOMAIN inflight'
                /\ inflight'[r].pc = "handler"
                /\ inflight'[r].userId = requester.id
           [] path[1] # requester.id ->
                /\ r \notin DOMAIN inflight'
                /\ res'.status = 403
           [] OTHER -> TRUE]_vars

\* C30: a user who logs in successfully at times each at least 24 and less
\* than 48 hours after the previous successful login has streakDays
\* increased by exactly one at each of those logins, whatever other saves of
\* the user record (addAchievement, updatePassword) happen between the
\* logins.
C30_StreakGrowsWithDailyLogins ==
  [][(IsRequest("login") /\ res'.status = 200 /\ accepted # <<>>) =>
       LET sincePrevious == (now - accepted[Len(accepted)].at) * TickMs IN
       (sincePrevious >= 24 * 3600000 /\ sincePrevious < 48 * 3600000) =>
         user'.streakDays = user.streakDays + 1]_vars
====
